---------------------------- MODULE Spec2Model ----------------------------
(***************************************************************************)
(* A model of the in-memory string repository of main.go: the text        *)
(* analyzer, the record store behind its sync.RWMutex, the structured      *)
(* filter engine and the natural-language filter translator.               *)
(*                                                                         *)
(* Strings are sequences of one-character strings, so that lower-casing,   *)
(* substring search, the regular expressions and strconv.Atoi are computed *)
(* character by character as the Go code computes them.                    *)
(***************************************************************************)
EXTENDS Integers, Sequences, FiniteSets, TLC

(***************************************************************************)
(* Bounds of the model.                                                    *)
(***************************************************************************)
MaxFrags == 2

MaxValLen == 3

MaxClock == 1

MaxOps == 4

(***************************************************************************)
(* Go's int.  Its width depends on GOARCH (32 or 64 bits); the model takes *)
(* the 32-bit build, whose values TLC's integers hold.  No sum is formed   *)
(* that leaves the range: every operation below wraps or saturates first.  *)
(***************************************************************************)
IntSize == 32

MaxInt == (2^(IntSize - 2) - 1) * 2 + 1

MinInt == -MaxInt - 1

\* Go's length + 1 on int: wraps around at MaxInt.
IntInc(a) == IF a = MaxInt THEN MinInt ELSE a + 1

\* Go's length - 1 on int: wraps around at MinInt.
IntDec(a) == IF a = MinInt THEN MaxInt ELSE a - 1

(***************************************************************************)
(* Characters and the string primitives of package strings.                *)
(***************************************************************************)
LowerSeq == <<"a", "b", "c", "d", "e", "f", "g", "h", "i", "j", "k", "l", "m",
              "n", "o", "p", "q", "r", "s", "t", "u", "v", "w", "x", "y", "z">>

UpperSeq == <<"A", "B", "C", "D", "E", "F", "G", "H", "I", "J", "K", "L", "M",
              "N", "O", "P", "Q", "R", "S", "T", "U", "V", "W", "X", "Y", "Z">>

DigitSeq == <<"0", "1", "2", "3", "4", "5", "6", "7", "8", "9">>

Range(s) == {s[i] : i \in 1..Len(s)}

IsLower(c) == c \in Range(LowerSeq)

IsUpper(c) == c \in Range(UpperSeq)

IsDigit(c) == c \in Range(DigitSeq)

IsSpace(c) == c \in {" ", "\t", "\n"}

IndexIn(seq, c) == CHOOSE i \in 1..Len(seq) : seq[i] = c

ToLowerChar(c) == IF IsUpper(c) THEN LowerSeq[IndexIn(UpperSeq, c)] ELSE c

\* strings.ToLower
ToLower(s) == [i \in 1..Len(s) |-> ToLowerChar(s[i])]

HasPrefixAt(s, i, pat) ==
    /\ i + Len(pat) - 1 <= Len(s)
    /\ \A j \in 1..Len(pat) : s[i + j - 1] = pat[j]

\* strings.Contains
Contains(s, sub) == \E i \in 1..(Len(s) + 1) : HasPrefixAt(s, i, sub)

\* strings.TrimSpace
TrimSpace(s) ==
    LET keep == {i \in 1..Len(s) : ~IsSpace(s[i])}
    IN  IF keep = {} THEN <<>>
        ELSE LET lo == CHOOSE i \in keep : \A j \in keep : i <= j
                 hi == CHOOSE i \in keep : \A j \in keep : j <= i
             IN  SubSeq(s, lo, hi)

\* len(strings.Fields(s)): the number of maximal runs of non-space characters.
FieldsLen(s) ==
    Cardinality({i \in 1..Len(s) :
                    /\ ~IsSpace(s[i])
                    /\ (i = 1 \/ IsSpace(s[i - 1]))})

(***************************************************************************)
(* strconv.Atoi and strconv.ParseBool.                                     *)
(***************************************************************************)
DigitVal(c) == IndexIn(DigitSeq, c) - 1

\* The magnitude of a digit string, as ParseUint accumulates it: over = 0
\* while it fits MaxInt, 1 when it is exactly MaxInt + 1, 2 beyond.
RECURSIVE Magnitude(_, _, _)
Magnitude(ds, i, acc) ==
    IF i > Len(ds) THEN acc
    ELSE LET d == DigitVal(ds[i])
         IN  IF acc.over > 0
                THEN Magnitude(ds, i + 1, [n |-> MaxInt, over |-> 2])
             ELSE IF acc.n > (MaxInt - d) \div 10
                THEN Magnitude(ds, i + 1,
                        [n |-> MaxInt,
                         over |-> IF acc.n = MaxInt \div 10 /\ d = (MaxInt % 10) + 1
                                     THEN 1 ELSE 2])
             ELSE Magnitude(ds, i + 1, [n |-> acc.n * 10 + d, over |-> 0])

\* strconv.Atoi: [val, err].  A syntax error gives 0; a range error gives the
\* nearest int (MaxInt or MinInt) together with the error.
Atoi(s) ==
    LET neg    == Len(s) > 0 /\ s[1] = "-"
        signed == Len(s) > 0 /\ s[1] \in {"+", "-"}
        ds     == IF signed THEN Tail(s) ELSE s
    IN  IF ds = <<>> \/ \E i \in 1..Len(ds) : ~IsDigit(ds[i])
           THEN [val |-> 0, err |-> TRUE]
        ELSE LET m == Magnitude(ds, 1, [n |-> 0, over |-> 0])
             IN  IF ~neg
                    THEN [val |-> m.n, err |-> m.over > 0]
                 ELSE IF m.over = 0 THEN [val |-> -m.n, err |-> FALSE]
                 ELSE [val |-> MinInt, err |-> m.over = 2]

sTrue == <<"t", "r", "u", "e">>

sFalse == <<"f", "a", "l", "s", "e">>

\* strconv.ParseBool: [val, err].
ParseBool(s) ==
    IF s \in {<<"1">>, <<"t">>, <<"T">>, sTrue, <<"T", "R", "U", "E">>,
              <<"T", "r", "u", "e">>}
       THEN [val |-> TRUE, err |-> FALSE]
    ELSE IF s \in {<<"0">>, <<"f">>, <<"F">>, sFalse, <<"F", "A", "L", "S", "E">>,
                   <<"F", "a", "l", "s", "e">>}
       THEN [val |-> FALSE, err |-> FALSE]
    ELSE [val |-> FALSE, err |-> TRUE]

(***************************************************************************)
(* Text analyzer.                                                          *)
(***************************************************************************)
\* computeSHA256: the digest is kept abstract, as a term over the bytes hashed.
computeSHA256(s) == <<"sha256", s>>

\* regexp [^a-zA-Z0-9] removed, then lower-cased, then compared end to end.
isPalindrome(s) ==
    LET cleaned == ToLower(SelectSeq(s, LAMBDA c : IsLower(c) \/ IsUpper(c) \/ IsDigit(c)))
        length  == Len(cleaned)
    IN  \A i \in 0..((length \div 2) - 1) : cleaned[i + 1] = cleaned[length - i]

countUniqueCharacters(s) == Cardinality(Range(s))

countWords(s) ==
    LET t == TrimSpace(s)
    IN  IF t = <<>> THEN 0 ELSE FieldsLen(t)

getCharacterFrequency(s) ==
    [c \in Range(s) |-> Cardinality({i \in 1..Len(s) : s[i] = c})]

analyzeString(value) ==
    [Length                |-> Len(value),
     IsPalindrome          |-> isPalindrome(value),
     UniqueCharacters      |-> countUniqueCharacters(value),
     WordCount             |-> countWords(value),
     SHA256Hash            |-> computeSHA256(value),
     CharacterFrequencyMap |-> getCharacterFrequency(value)]

\* The StringData that createString builds at time t.
StringData(value, t) ==
    [ID         |-> computeSHA256(value),
     Value      |-> value,
     Properties |-> analyzeString(value),
     CreatedAt  |-> t]

(***************************************************************************)
(* Structured filter engine.  A Go pointer is a sequence of length 0 (nil) *)
(* or 1 (the value pointed to).                                            *)
(***************************************************************************)
Nil == <<>>

Ptr(v) == <<v>>

\* matchesFilters with the maximum length taken as an exclusive bound.
matchesFiltersExclusiveMax(data, isPal, minLength, maxLength, wordCount, containsChar) ==
    IF isPal # Nil /\ data.Properties.IsPalindrome # isPal[1] THEN FALSE
    ELSE IF minLength # Nil /\ data.Properties.Length < minLength[1] THEN FALSE
    ELSE IF maxLength # Nil /\ data.Properties.Length >= maxLength[1] THEN FALSE
    ELSE IF wordCount # Nil /\ data.Properties.WordCount # wordCount[1] THEN FALSE
    ELSE IF containsChar # <<>>
            /\ ~Contains(ToLower(data.Value), ToLower(containsChar)) THEN FALSE
    ELSE TRUE

matchesFilters(data, isPal, minLength, maxLength, wordCount, containsChar) ==
    IF isPal # Nil /\ data.Properties.IsPalindrome # isPal[1] THEN FALSE
    ELSE IF minLength # Nil /\ data.Properties.Length < minLength[1] THEN FALSE
    ELSE IF maxLength # Nil /\ data.Properties.Length > maxLength[1] THEN FALSE
    ELSE IF wordCount # Nil /\ data.Properties.WordCount # wordCount[1] THEN FALSE
    ELSE IF containsChar # <<>>
            /\ ~Contains(ToLower(data.Value), ToLower(containsChar)) THEN FALSE
    ELSE TRUE


\* A Go map is a function whose domain is the set of keys present.
EmptyMap == <<>>

MapSet(m, k, v) == [x \in (DOMAIN m) \cup {k} |-> IF x = k THEN v ELSE m[x]]

\* delete(m, k)
MapDelete(m, k) == [x \in (DOMAIN m) \ {k} |-> m[x]]

\* The parameters getAllStrings reads with c.Query, each a string ("" when
\* absent), validated in the order of the code: the first invalid one ends the
\* request with 400 Bad Request.
getAllStringsParams(q) ==
    LET b  == ParseBool(q.is_palindrome)
        mn == Atoi(q.min_length)
        mx == Atoi(q.max_length)
        wc == Atoi(q.word_count)
        bad(msg) == [err |-> msg, isPalindrome |-> Nil, minLength |-> Nil,
                     maxLength |-> Nil, wordCount |-> Nil, containsChar |-> <<>>,
                     filtersApplied |-> <<>>]
        a1 == IF q.is_palindrome # <<>> THEN MapSet(<<>>, "is_palindrome", b.val) ELSE <<>>
        a2 == IF q.min_length # <<>> THEN MapSet(a1, "min_length", mn.val) ELSE a1
        a3 == IF q.max_length # <<>> THEN MapSet(a2, "max_length", mx.val) ELSE a2
        a4 == IF q.word_count # <<>> THEN MapSet(a3, "word_count", wc.val) ELSE a3
        a5 == IF q.contains_character # <<>>
                 THEN MapSet(a4, "contains_character", q.contains_character) ELSE a4
    IN  IF q.is_palindrome # <<>> /\ b.err
           THEN bad("Invalid value for is_palindrome")
        ELSE IF q.min_length # <<>> /\ (mn.err \/ mn.val < 0)
           THEN bad("Invalid value for min_length")
        ELSE IF q.max_length # <<>> /\ (mx.err \/ mx.val < 0)
           THEN bad("Invalid value for max_length")
        ELSE IF q.word_count # <<>> /\ (wc.err \/ wc.val < 0)
           THEN bad("Invalid value for word_count")
        ELSE IF q.contains_character # <<>> /\ Len(q.contains_character) # 1
           THEN bad("contains_character must be a single character")
        ELSE [err          |-> "",
              isPalindrome |-> IF q.is_palindrome # <<>> THEN Ptr(b.val) ELSE Nil,
              minLength    |-> IF q.min_length # <<>> THEN Ptr(mn.val) ELSE Nil,
              maxLength    |-> IF q.max_length # <<>> THEN Ptr(mx.val) ELSE Nil,
              wordCount    |-> IF q.word_count # <<>> THEN Ptr(wc.val) ELSE Nil,
              containsChar |-> q.contains_character,
              filtersApplied |-> a5]

(***************************************************************************)
(* Natural-language filter translator.                                     *)
(***************************************************************************)
sPalindrom == <<"p", "a", "l", "i", "n", "d", "r", "o", "m">>

sSingleWord == <<"s", "i", "n", "g", "l", "e", " ", "w", "o", "r", "d">>

sTwoWord == <<"t", "w", "o", " ", "w", "o", "r", "d">>

sLongerThan == <<"l", "o", "n", "g", "e", "r", " ", "t", "h", "a", "n", " ">>

sShorterThan == <<"s", "h", "o", "r", "t", "e", "r", " ", "t", "h", "a", "n", " ">>

sContain == <<"c", "o", "n", "t", "a", "i", "n">>

sThe == <<"t", "h", "e", " ">>

sLetter == <<"l", "e", "t", "t", "e", "r">>

sCharacter == <<"c", "h", "a", "r", "a", "c", "t", "e", "r">>

sFirstVowel == <<"f", "i", "r", "s", "t", " ", "v", "o", "w", "e", "l">>

MinOf(S) == CHOOSE i \in S : \A j \in S : i <= j

MaxOf(S) == CHOOSE i \in S : \A j \in S : j <= i

\* FindStringSubmatch for a regexp `<lit>(\d+)`: the leftmost match, its digit
\* run taken greedily; <<>> when there is none, else <<match, group 1>>.
FindLitDigits(s, lit) ==
    LET starts == {i \in 1..Len(s) :
                      /\ HasPrefixAt(s, i, lit)
                      /\ i + Len(lit) <= Len(s)
                      /\ IsDigit(s[i + Len(lit)])}
    IN  IF starts = {} THEN <<>>
        ELSE LET i0 == MinOf(starts)
                 d0 == i0 + Len(lit)
                 d1 == MaxOf({j \in d0..Len(s) : \A k \in d0..j : IsDigit(s[k])})
             IN  <<SubSeq(s, i0, d1), SubSeq(s, d0, d1)>>

\* regexp `longer than (\d+)`
longerThanRegex(s) == FindLitDigits(s, sLongerThan)

\* regexp `shorter than (\d+)`
shorterThanRegex(s) == FindLitDigits(s, sShorterThan)

\* The literal texts that `contain(?:s|ing)? (?:the )?(?:letter|character) `
\* matches, one per choice of the alternatives.
containsLits ==
    {sContain \o x \o <<" ">> \o t \o l \o <<" ">> :
        x \in {<<>>, <<"s">>, <<"i", "n", "g">>},
        t \in {<<>>, sThe},
        l \in {sLetter, sCharacter}}

\* regexp `contain(?:s|ing)? (?:the )?(?:letter|character) ([a-z])`: the
\* leftmost match (at one position at most one alternative matches).
containsRegex(s) ==
    LET at(i) == {lit \in containsLits :
                     /\ HasPrefixAt(s, i, lit)
                     /\ i + Len(lit) <= Len(s)
                     /\ IsLower(s[i + Len(lit)])}
        starts == {i \in 1..Len(s) : at(i) # {}}
    IN  IF starts = {} THEN <<>>
        ELSE LET i0  == MinOf(starts)
                 lit == CHOOSE l \in at(i0) : TRUE
                 c   == i0 + Len(lit)
             IN  <<SubSeq(s, i0, c), SubSeq(s, c, c)>>

\* The filters map as parseNaturalLanguageQuery has filled it before its
\* final emptiness test.
parseFilters(query) ==
    LET lowerQuery == ToLower(query)
        f0 == EmptyMap
        f1 == IF Contains(lowerQuery, sPalindrom)
                 THEN MapSet(f0, "is_palindrome", TRUE) ELSE f0
        f2 == IF Contains(lowerQuery, sSingleWord) THEN MapSet(f1, "word_count", 1)
              ELSE IF Contains(lowerQuery, sTwoWord) THEN MapSet(f1, "word_count", 2)
              ELSE f1
        ml == longerThanRegex(lowerQuery)
        f3 == IF Len(ml) > 1
                 THEN MapSet(f2, "min_length", IntInc(Atoi(ml[2]).val)) ELSE f2
        ms == shorterThanRegex(lowerQuery)
        f4 == IF Len(ms) > 1
                 THEN MapSet(f3, "max_length", IntDec(Atoi(ms[2]).val)) ELSE f3
        mc == containsRegex(lowerQuery)
        f5 == IF Len(mc) > 1 THEN MapSet(f4, "contains_character", mc[2]) ELSE f4
        f6 == IF Contains(lowerQuery, sFirstVowel)
                 THEN MapSet(f5, "contains_character", <<"a">>) ELSE f5
    IN  f6

\* parseNaturalLanguageQuery without its len(filters) == 0 test.
parseNoEmptyTest(query) == [filters |-> parseFilters(query), err |-> FALSE]

parseNaturalLanguageQuery(query) ==
    LET filters == parseFilters(query)
    IN  IF DOMAIN filters = {}
           THEN [filters |-> EmptyMap, err |-> TRUE]
           ELSE [filters |-> filters, err |-> FALSE]

\* matchesNaturalFilters comparing the character against the value as stored,
\* without lower-casing either.
matchesNaturalNoLower(data, filters) ==
    /\ "is_palindrome" \in DOMAIN filters
          => data.Properties.IsPalindrome = filters["is_palindrome"]
    /\ "word_count" \in DOMAIN filters
          => data.Properties.WordCount = filters["word_count"]
    /\ "min_length" \in DOMAIN filters
          => data.Properties.Length >= filters["min_length"]
    /\ "max_length" \in DOMAIN filters
          => data.Properties.Length <= filters["max_length"]
    /\ "contains_character" \in DOMAIN filters
          => Contains(data.Value, filters["contains_character"])

\* filters[k].(T) succeeds exactly when k is present: the translator stores a
\* bool, an int or a string under the key that is read with that type.
matchesNaturalFilters(data, filters) ==
    IF "is_palindrome" \in DOMAIN filters
          /\ data.Properties.IsPalindrome # filters["is_palindrome"] THEN FALSE
    ELSE IF "word_count" \in DOMAIN filters
          /\ data.Properties.WordCount # filters["word_count"] THEN FALSE
    ELSE IF "min_length" \in DOMAIN filters
          /\ data.Properties.Length < filters["min_length"] THEN FALSE
    ELSE IF "max_length" \in DOMAIN filters
          /\ data.Properties.Length > filters["max_length"] THEN FALSE
    ELSE IF "contains_character" \in DOMAIN filters
          /\ ~Contains(ToLower(data.Value), ToLower(filters["contains_character"]))
       THEN FALSE
    ELSE TRUE


(***************************************************************************)
(* State.                                                                  *)
(*   storage, readers, writer : the map and the sync.RWMutex guarding it   *)
(*   pc, local                : each request goroutine's position, locals  *)
(*   now                      : the latest time that time.Now() returned   *)
(*   hist, nreq               : the responses sent so far to create, get   *)
(*                              and delete requests; the requests received *)
(*   tin, tfs, tval, tverd    : one application of the filter functions:   *)
(*                              input, filter set, record value, verdict   *)
(***************************************************************************)
VARIABLES storage, readers, writer, pc, local, now, hist, nreq,
          tin, tfs, tval, tverd

storeVars == <<storage, readers, writer, pc, local, now, hist, nreq>>

pureVars == <<tin, tfs, tval, tverd>>

vars == <<storage, readers, writer, pc, local, now, hist, nreq,
          tin, tfs, tval, tverd>>

Procs == {"p1", "p2"}

NoLocal == [op |-> "none"]

StoreInit ==
    /\ storage = EmptyMap
    /\ readers = {}
    /\ writer = Nil
    /\ pc = [p \in Procs |-> "idle"]
    /\ local = [p \in Procs |-> NoLocal]
    /\ now = 0
    /\ hist = <<>>
    /\ nreq = 0

(***************************************************************************)
(* Inputs of the filter functions.                                         *)
(***************************************************************************)
ValAlphabet == {"a", "Z", " "}

\* The values a record can hold: createString refuses the empty string.
Values == UNION {[1..n -> ValAlphabet] : n \in 1..MaxValLen}

sBigNumber == <<"9", "9", "9", "9", "9", "9", "9", "9", "9", "9">>

sMaxIntNumber == <<"2", "1", "4", "7", "4", "8", "3", "6", "4", "7">>

\* The pieces query texts are assembled from: each phrase the translator looks
\* for (one with a capital, to pass through strings.ToLower), numbers that fit
\* int and numbers that do not, and text that matches nothing.
Frags ==
    {<<"P", "a", "l", "i", "n", "d", "r", "o", "m">>,
     sSingleWord,
     sTwoWord,
     sLongerThan \o <<"0">>,
     sLongerThan \o <<"2">>,
     sLongerThan \o sMaxIntNumber,
     sLongerThan \o sBigNumber,
     sShorterThan \o <<"0">>,
     sShorterThan \o <<"2">>,
     sShorterThan \o sBigNumber,
     <<"7">>,
     sContain \o <<"i", "n", "g", " ">> \o sThe \o sLetter \o <<" ", "z">>,
     sFirstVowel,
     <<"b", "a", "n", "a", "n", "a">>,
     <<" ">>}

RECURSIVE Concats(_)
Concats(n) ==
    IF n = 0 THEN {<<>>}
    ELSE LET shorter == Concats(n - 1)
         IN  shorter \cup {f \o q : f \in Frags, q \in shorter}

\* The query texts: every concatenation of 1..MaxFrags fragments.
Queries == Concats(MaxFrags) \ {<<>>}

RawParams ==
    [is_palindrome      : {<<>>, sTrue, <<"0">>, <<"y">>},
     min_length         : {<<>>, <<"0">>, <<"2">>, <<"-", "1">>, <<"x">>},
     max_length         : {<<>>, <<"1">>, <<"3">>, <<"-", "1">>},
     word_count         : {<<>>, <<"1">>, <<"2">>, <<"-", "2">>},
     contains_character : {<<>>, <<"z">>, <<"A">>, <<"a", "Z">>}]

PureIdle ==
    /\ tin = [kind |-> "none"]
    /\ tfs = <<>>
    /\ tval = <<>>
    /\ tverd = <<>>

FilterInit ==
    /\ StoreInit
    /\ tin \in [kind : {"query"}, query : Queries]
                  \cup [kind : {"params"}, params : RawParams]
    /\ tfs = <<>>
    /\ tval = <<>>
    /\ tverd = <<>>

\* filterByNaturalLanguage's call of parseNaturalLanguageQuery.
Translate ==
    /\ tin.kind = "query"
    /\ tfs = <<>>
    /\ tfs' = <<parseNaturalLanguageQuery(tin.query)>>
    /\ UNCHANGED <<tin, tval, tverd, storeVars>>

\* One iteration of filterByNaturalLanguage's loop, on the record of value v.
NaturalMatch(v) ==
    /\ tin.kind = "query"
    /\ tfs # <<>>
    /\ ~tfs[1].err
    /\ tval = <<>>
    /\ tval' = <<v>>
    /\ tverd' = <<matchesNaturalFilters(StringData(v, 0), tfs[1].filters)>>
    /\ UNCHANGED <<tin, tfs, storeVars>>

\* getAllStrings' conversion and validation of its query parameters.
ParseParams ==
    /\ tin.kind = "params"
    /\ tfs = <<>>
    /\ tfs' = <<getAllStringsParams(tin.params)>>
    /\ UNCHANGED <<tin, tval, tverd, storeVars>>

\* One iteration of getAllStrings' loop, on the record of value v.
StructuredMatch(v) ==
    /\ tin.kind = "params"
    /\ tfs # <<>>
    /\ tfs[1].err = ""
    /\ tval = <<>>
    /\ tval' = <<v>>
    /\ tverd' = <<matchesFilters(StringData(v, 0), tfs[1].isPalindrome,
                                 tfs[1].minLength, tfs[1].maxLength,
                                 tfs[1].wordCount, tfs[1].containsChar)>>
    /\ UNCHANGED <<tin, tfs, storeVars>>

FilterNext ==
    \/ Translate
    \/ \E v \in Values : NaturalMatch(v)
    \/ ParseParams
    \/ \E v \in Values : StructuredMatch(v)

FilterSpec == FilterInit /\ [][FilterNext]_vars

(***************************************************************************)
(* The record store and the five request handlers.  Each goroutine p       *)
(* serves one request at a time; a step is what a handler does between two *)
(* operations on the mutex.                                                *)
(***************************************************************************)
vAZ == <<"a", "Z">>

vA_A == <<"a", " ", "a">>

\* The values requests name: bodies of POST /strings (the empty one is
\* refused) and the :string_value of GET and DELETE.
Keys == {vAZ, vA_A}

CreateInputs == Keys \cup {<<>>}

ListInputs ==
    {[is_palindrome |-> ip, min_length |-> mn, max_length |-> <<>>,
      word_count |-> <<>>, contains_character |-> <<>>] :
        ip \in {<<>>, sTrue}, mn \in {<<>>, <<"-", "1">>}}
      \ {[is_palindrome |-> sTrue, min_length |-> <<"-", "1">>, max_length |-> <<>>,
          word_count |-> <<>>, contains_character |-> <<>>]}

QueryInputs == {<<>>, <<"b", "a", "n", "a", "n", "a">>, sTwoWord}

\* mu.RLock() returns once no writer holds the mutex.  (sync.RWMutex also
\* holds back a reader that arrives while a writer waits; the model lets it in,
\* which adds interleavings and removes none.)
CanRLock == writer = Nil

\* mu.Lock() taking no account of the readers inside.
CanLockDespiteReaders == writer = Nil

\* mu.Lock() returns once neither a writer nor a reader holds the mutex.
CanLock == writer = Nil /\ readers = {}

\* delete(storage, stringValue) leaving the entry in place.
deleteKeepsEntry(m, k) == m

\* delete(storage, stringValue)
deleteEntry(m, k) == MapDelete(m, k)

\* The response sent to a create, get or delete request, as the client sees it.
Sent(op, value, status, data) ==
    Append(hist, [op |-> op, value |-> value, status |-> status, data |-> data])

Idle(p) == pc[p] = "idle" /\ nreq < MaxOps

Goto(p, label) == pc' = [pc EXCEPT ![p] = label]

SetLocal(p, l) == local' = [local EXCEPT ![p] = l]

\* createString: the body is decoded; an empty value is refused with 400.
CreateRecv(p, v) ==
    /\ Idle(p)
    /\ nreq' = nreq + 1
    /\ IF v = <<>>
          THEN /\ hist' = Sent("create", v, 400, Nil)
               /\ UNCHANGED <<pc, local>>
          ELSE /\ Goto(p, "c_rlock")
               /\ SetLocal(p, [op |-> "create", value |-> v, hash |-> computeSHA256(v)])
               /\ UNCHANGED hist
    /\ UNCHANGED <<storage, readers, writer, now, pureVars>>

CreateRLock(p) ==
    /\ pc[p] = "c_rlock"
    /\ CanRLock
    /\ readers' = readers \cup {p}
    /\ Goto(p, "c_check")
    /\ UNCHANGED <<storage, writer, local, now, hist, nreq, pureVars>>

\* The existence test under the read lock, which is released on both paths.
CreateCheck(p) ==
    /\ pc[p] = "c_check"
    /\ readers' = readers \ {p}
    /\ IF local[p].value \in DOMAIN storage
          THEN /\ hist' = Sent("create", local[p].value, 409, Nil)
               /\ Goto(p, "idle")
               /\ SetLocal(p, NoLocal)
          ELSE /\ Goto(p, "c_build")
               /\ UNCHANGED <<hist, local>>
    /\ UNCHANGED <<storage, writer, now, nreq, pureVars>>

\* analyzeString and the StringData literal.  time.Now() returns the time t
\* the clock has reached, which is never before an earlier reading.
CreateBuild(p) ==
    /\ pc[p] = "c_build"
    /\ \E t \in now..MaxClock :
          /\ now' = t
          /\ SetLocal(p, [local[p] EXCEPT !.op = "create"] @@
                         [stringData |-> StringData(local[p].value, t)])
    /\ Goto(p, "c_lock")
    /\ UNCHANGED <<storage, readers, writer, hist, nreq, pureVars>>

CreateLock(p) ==
    /\ pc[p] = "c_lock"
    /\ CanLock
    /\ writer' = Ptr(p)
    /\ Goto(p, "c_store")
    /\ UNCHANGED <<storage, readers, local, now, hist, nreq, pureVars>>

\* storage[req.Value] = stringData; mu.Unlock(); 201 with the record.
CreateStore(p) ==
    /\ pc[p] = "c_store"
    /\ storage' = MapSet(storage, local[p].value, local[p].stringData)
    /\ writer' = Nil
    /\ hist' = Sent("create", local[p].value, 201, Ptr(local[p].stringData))
    /\ Goto(p, "idle")
    /\ SetLocal(p, NoLocal)
    /\ UNCHANGED <<readers, now, nreq, pureVars>>

\* getSpecificString: mu.RLock().
GetRLock(p, v) ==
    /\ Idle(p)
    /\ nreq' = nreq + 1
    /\ CanRLock
    /\ readers' = readers \cup {p}
    /\ Goto(p, "g_read")
    /\ SetLocal(p, [op |-> "get", value |-> v])
    /\ UNCHANGED <<storage, writer, now, hist, pureVars>>

\* data, exists := storage[stringValue]; mu.RUnlock(); 404 or the record.
GetRead(p) ==
    /\ pc[p] = "g_read"
    /\ readers' = readers \ {p}
    /\ hist' = IF local[p].value \in DOMAIN storage
                  THEN Sent("get", local[p].value, 200, Ptr(storage[local[p].value]))
                  ELSE Sent("get", local[p].value, 404, Nil)
    /\ Goto(p, "idle")
    /\ SetLocal(p, NoLocal)
    /\ UNCHANGED <<storage, writer, now, nreq, pureVars>>

\* deleteString: mu.Lock().
DeleteLock(p, v) ==
    /\ Idle(p)
    /\ nreq' = nreq + 1
    /\ CanLock
    /\ writer' = Ptr(p)
    /\ Goto(p, "d_apply")
    /\ SetLocal(p, [op |-> "delete", value |-> v])
    /\ UNCHANGED <<storage, readers, now, hist, pureVars>>

\* 404 when absent, else delete and 204; the deferred mu.Unlock().
DeleteApply(p) ==
    /\ pc[p] = "d_apply"
    /\ IF local[p].value \notin DOMAIN storage
          THEN /\ hist' = Sent("delete", local[p].value, 404, Nil)
               /\ UNCHANGED storage
          ELSE /\ storage' = deleteEntry(storage, local[p].value)
               /\ hist' = Sent("delete", local[p].value, 204, Nil)
    /\ writer' = Nil
    /\ Goto(p, "idle")
    /\ SetLocal(p, NoLocal)
    /\ UNCHANGED <<readers, now, nreq, pureVars>>

\* getAllStrings: mu.RLock(), then the parameters are converted and validated;
\* an invalid one is answered 400 (the read lock is released on return).
ListRLock(p, q) ==
    /\ Idle(p)
    /\ nreq' = nreq + 1
    /\ CanRLock
    /\ readers' = readers \cup {p}
    /\ LET f == getAllStringsParams(q)
       IN  IF f.err # ""
              THEN /\ Goto(p, "l_ret")
                   /\ SetLocal(p, [op |-> "list", resp |-> [status |-> 400, error |-> f.err]])
              ELSE /\ Goto(p, "l_scan")
                   /\ SetLocal(p, [op |-> "list", f |-> f, scanned |-> {},
                                   filtered |-> <<>>])
    /\ UNCHANGED <<storage, writer, now, hist, pureVars>>

\* One iteration of `for _, data := range storage`: the map yields each key
\* once, in an order it does not specify.
ListScan(p) ==
    /\ pc[p] = "l_scan"
    /\ \E k \in (DOMAIN storage) \ local[p].scanned :
          LET data == storage[k]
              f    == local[p].f
              hit  == matchesFilters(data, f.isPalindrome, f.minLength, f.maxLength,
                                     f.wordCount, f.containsChar)
          IN  SetLocal(p, [local[p] EXCEPT
                              !.scanned = @ \cup {k},
                              !.filtered = IF hit THEN Append(@, data) ELSE @])
    /\ UNCHANGED <<storage, readers, writer, pc, now, hist, nreq, pureVars>>

\* The loop has ended: the GetAllStringsResponse is built.
ListRespond(p) ==
    /\ pc[p] = "l_scan"
    /\ (DOMAIN storage) \ local[p].scanned = {}
    /\ SetLocal(p, [local[p] EXCEPT !.op = "list"] @@
                   [resp |-> [status         |-> 200,
                              Data           |-> local[p].filtered,
                              Count          |-> Len(local[p].filtered),
                              FiltersApplied |-> local[p].f.filtersApplied]])
    /\ Goto(p, "l_ret")
    /\ UNCHANGED <<storage, readers, writer, now, hist, nreq, pureVars>>

\* The deferred mu.RUnlock() as getAllStrings returns.
ListRUnlock(p) ==
    /\ pc[p] = "l_ret"
    /\ readers' = readers \ {p}
    /\ Goto(p, "idle")
    /\ SetLocal(p, NoLocal)
    /\ UNCHANGED <<storage, writer, now, hist, nreq, pureVars>>

\* filterByNaturalLanguage: an empty or untranslatable query is answered 400
\* before the mutex is touched.
NLRecv(p, q) ==
    /\ Idle(p)
    /\ nreq' = nreq + 1
    /\ LET r == parseNaturalLanguageQuery(q)
       IN  IF q = <<>> \/ r.err
              THEN UNCHANGED <<pc, local>>
              ELSE /\ Goto(p, "n_rlock")
                   /\ SetLocal(p, [op |-> "nl", query |-> q, filters |-> r.filters,
                                   scanned |-> {}, filtered |-> <<>>])
    /\ UNCHANGED <<storage, readers, writer, now, hist, pureVars>>

NLRLock(p) ==
    /\ pc[p] = "n_rlock"
    /\ CanRLock
    /\ readers' = readers \cup {p}
    /\ Goto(p, "n_scan")
    /\ UNCHANGED <<storage, writer, local, now, hist, nreq, pureVars>>

NLScan(p) ==
    /\ pc[p] = "n_scan"
    /\ \E k \in (DOMAIN storage) \ local[p].scanned :
          LET data == storage[k]
              hit  == matchesNaturalFilters(data, local[p].filters)
          IN  SetLocal(p, [local[p] EXCEPT
                              !.scanned = @ \cup {k},
                              !.filtered = IF hit THEN Append(@, data) ELSE @])
    /\ UNCHANGED <<storage, readers, writer, pc, now, hist, nreq, pureVars>>

\* The loop has ended: the NaturalLanguageResponse is built.
NLRespond(p) ==
    /\ pc[p] = "n_scan"
    /\ (DOMAIN storage) \ local[p].scanned = {}
    /\ SetLocal(p, [local[p] EXCEPT !.op = "nl"] @@
                   [resp |-> [status           |-> 200,
                              Data             |-> local[p].filtered,
                              Count            |-> Len(local[p].filtered),
                              InterpretedQuery |->
                                  [Original      |-> local[p].query,
                                   ParsedFilters |-> local[p].filters]]])
    /\ Goto(p, "n_ret")
    /\ UNCHANGED <<storage, readers, writer, now, hist, nreq, pureVars>>

\* The deferred mu.RUnlock() as filterByNaturalLanguage returns.
NLRUnlock(p) ==
    /\ pc[p] = "n_ret"
    /\ readers' = readers \ {p}
    /\ Goto(p, "idle")
    /\ SetLocal(p, NoLocal)
    /\ UNCHANGED <<storage, writer, now, hist, nreq, pureVars>>

Init == StoreInit /\ PureIdle

Next ==
    \/ \E p \in Procs, v \in CreateInputs : CreateRecv(p, v)
    \/ \E p \in Procs : CreateRLock(p)
    \/ \E p \in Procs : CreateCheck(p)
    \/ \E p \in Procs : CreateBuild(p)
    \/ \E p \in Procs : CreateLock(p)
    \/ \E p \in Procs : CreateStore(p)
    \/ \E p \in Procs, v \in Keys : GetRLock(p, v)
    \/ \E p \in Procs : GetRead(p)
    \/ \E p \in Procs, v \in Keys : DeleteLock(p, v)
    \/ \E p \in Procs : DeleteApply(p)
    \/ \E p \in Procs, q \in ListInputs : ListRLock(p, q)
    \/ \E p \in Procs : ListScan(p)
    \/ \E p \in Procs : ListRespond(p)
    \/ \E p \in Procs : ListRUnlock(p)
    \/ \E p \in Procs, q \in QueryInputs : NLRecv(p, q)
    \/ \E p \in Procs : NLRLock(p)
    \/ \E p \in Procs : NLScan(p)
    \/ \E p \in Procs : NLRespond(p)
    \/ \E p \in Procs : NLRUnlock(p)

\* Requests arrive from any number of clients at once.
Spec == Init /\ [][Next]_vars

\* One client, which sends a request when the last one has been answered:
\* the second goroutine never serves.
SeqInit ==
    /\ storage = EmptyMap
    /\ readers = {}
    /\ writer = Nil
    /\ pc = [p \in Procs |-> IF p = "p1" THEN "idle" ELSE "off"]
    /\ local = [p \in Procs |-> NoLocal]
    /\ now = 0
    /\ hist = <<>>
    /\ nreq = 0
    /\ PureIdle

SeqSpec == SeqInit /\ [][Next]_vars

(***************************************************************************)
(* Properties of the record store, over Spec (concurrent requests) and     *)
(* SeqSpec (one request at a time).                                        *)
(***************************************************************************)
Created(e, v) == e.op = "create" /\ e.value = v /\ e.status = 201

Deleted(e, v) == e.op = "delete" /\ e.value = v /\ e.status = 204

\* C1: a create for v fails with Conflict whenever a record for v exists: if
\* two create requests for v both succeed, a successful delete of v took
\* effect between their stores into the map.  In particular two concurrent
\* creates of one absent value never both succeed.
C1_NoSecondCreateWithoutDelete ==
    \A i \in 1..Len(hist), j \in 1..Len(hist) :
        (i < j /\ Created(hist[i], hist[i].value) /\ Created(hist[j], hist[i].value))
            => \E k \in (i + 1)..(j - 1) : Deleted(hist[k], hist[i].value)

\* C2: a stored record is immutable: once a record for v is in the store, the
\* record held under v is not replaced or changed until a delete removes it.
C2_StoredRecordNeverReplaced ==
    [][\A v \in (DOMAIN storage) \cap (DOMAIN storage') : storage'[v] = storage[v]]_vars

\* What the requests answered before the i-th say is stored under v: the
\* record of the latest successful create of v, unless a successful delete
\* of v came after it.
ExpectedAt(i, v) ==
    LET eff == {j \in 1..(i - 1) : Created(hist[j], v) \/ Deleted(hist[j], v)}
    IN  IF eff = {} THEN Nil
        ELSE LET j == MaxOf(eff)
             IN  IF hist[j].op = "create" THEN hist[j].data ELSE Nil

\* C3: in a sequential history, Get(v) returns the record stored by the most
\* recent successful Create(v) when no successful Delete(v) followed it, and
\* NotFound otherwise; Delete(v) succeeds exactly when Get(v) would have
\* returned a record.
C3_GetReturnsLatestCreate ==
    \A i \in 1..Len(hist) :
        LET e   == hist[i]
            exp == ExpectedAt(i, e.value)
        IN  /\ e.op = "get" =>
                IF exp = Nil THEN e.status = 404 /\ e.data = Nil
                             ELSE e.status = 200 /\ e.data = exp
            /\ e.op = "delete" =>
                IF exp = Nil THEN e.status = 404 ELSE e.status = 204

\* A value was created, deleted, created again at a later time, and a get
\* then returned the second record.
C3_Witness ==
    /\ Len(hist) = 4
    /\ Created(hist[1], vAZ)
    /\ Deleted(hist[2], vAZ)
    /\ Created(hist[3], vAZ)
    /\ hist[3].data # hist[1].data
    /\ hist[4].op = "get"
    /\ hist[4].value = vAZ
    /\ hist[4].status = 200
    /\ hist[4].data = hist[3].data

\* The records of the keys K that match the filters of p's request.
Hits(p, K) ==
    {storage[k] : k \in
        {k \in K :
            IF local[p].op = "list"
               THEN matchesFilters(storage[k], local[p].f.isPalindrome,
                                   local[p].f.minLength, local[p].f.maxLength,
                                   local[p].f.wordCount, local[p].f.containsChar)
               ELSE matchesNaturalFilters(storage[k], local[p].filters)}}

\* C4: a list or natural-language filter request running beside creates and
\* deletes returns a consistent snapshot: while it scans, what it has
\* collected is exactly the matching records of the keys scanned, all still
\* in the store; when its response is built the records returned are exactly
\* the records of the store that match, each once, and the count is their
\* number.
C4_ListIsConsistentSnapshot ==
    \A p \in Procs :
        /\ pc[p] \in {"l_scan", "n_scan"} =>
              /\ local[p].scanned \subseteq DOMAIN storage
              /\ Range(local[p].filtered) = Hits(p, local[p].scanned)
              /\ Len(local[p].filtered) = Cardinality(Hits(p, local[p].scanned))
        /\ (pc[p] \in {"l_ret", "n_ret"} /\ local[p].resp.status = 200) =>
              /\ Range(local[p].resp.Data) = Hits(p, DOMAIN storage)
              /\ Len(local[p].resp.Data) = Cardinality(Hits(p, DOMAIN storage))
              /\ local[p].resp.Count = Len(local[p].resp.Data)

\* A filtered list has been answered with some records of the store and not
\* others, while a create that passed its existence test waits for the mutex.
C4_Witness ==
    \E p \in Procs, o \in Procs :
        /\ pc[p] = "l_ret"
        /\ local[p].resp.status = 200
        /\ Len(local[p].resp.Data) >= 1
        /\ Cardinality(DOMAIN storage) > Len(local[p].resp.Data)
        /\ pc[o] = "c_lock"

(***************************************************************************)
(* Properties of the translator and of the two matching functions, over    *)
(* FilterSpec.                                                             *)
(***************************************************************************)
Translated == tin.kind = "query" /\ tfs # <<>>

NaturalMatched == tin.kind = "query" /\ tverd # <<>>

StructuredMatched == tin.kind = "params" /\ tverd # <<>>

\* The six patterns of the translator, read off the query text directly.
FollowedBy(s, lit, ok(_)) ==
    \E i \in 1..Len(s) :
        /\ HasPrefixAt(s, i, lit)
        /\ i + Len(lit) <= Len(s)
        /\ ok(s[i + Len(lit)])

HasLongerThan(s) == FollowedBy(s, sLongerThan, IsDigit)

HasShorterThan(s) == FollowedBy(s, sShorterThan, IsDigit)

HasContainLetter(s) == \E lit \in containsLits : FollowedBy(s, lit, IsLower)

AnyPattern(s) ==
    \/ Contains(s, sPalindrom)
    \/ Contains(s, sSingleWord)
    \/ Contains(s, sTwoWord)
    \/ HasLongerThan(s)
    \/ HasShorterThan(s)
    \/ HasContainLetter(s)
    \/ Contains(s, sFirstVowel)

\* C5: the translation fails (Unparseable) exactly when none of the six
\* patterns occurs in the lower-cased query, and a translation that succeeds
\* has at least one field set: the empty filter set is never a success.
C5_UnparseableIffNoPattern ==
    Translated =>
        /\ tfs[1].err <=> ~AnyPattern(ToLower(tin.query))
        /\ ~tfs[1].err => DOMAIN tfs[1].filters # {}

\* A query in which no pattern occurs has been translated, and has failed.
C5_Witness ==
    /\ Translated
    /\ ~AnyPattern(ToLower(tin.query))
    /\ tfs[1].err

\* Decimal arithmetic on digit strings, for numbers of any size.
StripZeros(ds) ==
    LET nz == {i \in 1..Len(ds) : ds[i] # "0"}
    IN  IF nz = {} THEN <<"0">> ELSE SubSeq(ds, MinOf(nz), Len(ds))

RECURSIVE IncDigits(_)
IncDigits(ds) ==
    IF ds = <<>> THEN <<"1">>
    ELSE LET front == SubSeq(ds, 1, Len(ds) - 1)
             last  == ds[Len(ds)]
         IN  IF last # "9" THEN front \o <<DigitSeq[DigitVal(last) + 2]>>
             ELSE IncDigits(front) \o <<"0">>

\* ds - 1, for a digit string ds that is not zero.
RECURSIVE DecDigits(_)
DecDigits(ds) ==
    LET front == SubSeq(ds, 1, Len(ds) - 1)
        last  == ds[Len(ds)]
    IN  IF last # "0" THEN front \o <<DigitSeq[DigitVal(last)]>>
        ELSE DecDigits(front) \o <<"9">>

\* The decimal digits of n >= 0.
RECURSIVE Itoa(_)
Itoa(n) ==
    IF n < 10 THEN <<DigitSeq[n + 1]>>
    ELSE Itoa(n \div 10) \o <<DigitSeq[(n % 10) + 1]>>

\* C6: a query containing "longer than N" translates to min_length = N + 1
\* and one containing "shorter than N" to max_length = N - 1, for every
\* decimal integer N, N = 0 and N beyond the machine integer included (N is
\* the number of the leftmost occurrence).
C6_LengthBoundsExact ==
    (Translated /\ ~tfs[1].err) =>
        LET lq == ToLower(tin.query)
            ml == longerThanRegex(lq)
            ms == shorterThanRegex(lq)
            f  == tfs[1].filters
        IN  /\ Len(ml) > 1 =>
                /\ "min_length" \in DOMAIN f
                /\ f["min_length"] >= 0
                /\ Itoa(f["min_length"]) = StripZeros(IncDigits(ml[2]))
            /\ Len(ms) > 1 =>
                /\ "max_length" \in DOMAIN f
                /\ IF StripZeros(ms[2]) = <<"0">>
                      THEN f["max_length"] = -1
                      ELSE /\ f["max_length"] >= 0
                           /\ Itoa(f["max_length"])
                                 = StripZeros(DecDigits(StripZeros(ms[2])))

\* The predicates of a filter set's fields on a record, each unconstrained
\* when its field is absent.
PalindromeHolds(data, p) == p = Nil \/ data.Properties.IsPalindrome = p[1]

MinLengthHolds(data, p) == p = Nil \/ data.Properties.Length >= p[1]

MaxLengthHolds(data, p) == p = Nil \/ data.Properties.Length <= p[1]

WordCountHolds(data, p) == p = Nil \/ data.Properties.WordCount = p[1]

CharacterHolds(data, c) ==
    c = <<>> \/ \E i \in 1..Len(data.Value) :
                    ToLowerChar(data.Value[i]) = ToLowerChar(c[1])

\* C7: matchesFilters is true if and only if every present field's predicate
\* holds (palindrome flag equal, length >= min_length, length <= max_length,
\* word count equal, character contained case-insensitively in the value);
\* with no field present it is true of every record.
C7_MatchesIffAllPresentHold ==
    StructuredMatched =>
        LET data == StringData(tval[1], 0)
            f    == tfs[1]
        IN  /\ tverd[1] <=>
                  /\ PalindromeHolds(data, f.isPalindrome)
                  /\ MinLengthHolds(data, f.minLength)
                  /\ MaxLengthHolds(data, f.maxLength)
                  /\ WordCountHolds(data, f.wordCount)
                  /\ CharacterHolds(data, f.containsChar)
            /\ (/\ f.isPalindrome = Nil /\ f.minLength = Nil /\ f.maxLength = Nil
                /\ f.wordCount = Nil /\ f.containsChar = <<>>) => tverd[1]

\* A record whose length equals the maximum length asked for has matched a
\* filter set that also names a character.
C7_Witness ==
    /\ StructuredMatched
    /\ tfs[1].maxLength # Nil
    /\ tfs[1].maxLength[1] = Len(tval[1])
    /\ tfs[1].containsChar # <<>>
    /\ tverd[1]

\* The arguments of matchesFilters that carry the field values of a
\* translated filter map.
PtrOf(f, k) == IF k \in DOMAIN f THEN Ptr(f[k]) ELSE Nil

StringOf(f, k) == IF k \in DOMAIN f THEN f[k] ELSE <<>>

\* C8: on the filter map the translator returns, matchesNaturalFilters gives
\* every record the verdict that matchesFilters gives it with the same field
\* values, which is that the record satisfies every field of the filter set.
C8_NaturalAgreesWithStructured ==
    NaturalMatched =>
        LET data == StringData(tval[1], 0)
            f    == tfs[1].filters
        IN  /\ tverd[1] = matchesFilters(data, PtrOf(f, "is_palindrome"),
                              PtrOf(f, "min_length"), PtrOf(f, "max_length"),
                              PtrOf(f, "word_count"),
                              StringOf(f, "contains_character"))
            /\ tverd[1] <=>
                  /\ PalindromeHolds(data, PtrOf(f, "is_palindrome"))
                  /\ MinLengthHolds(data, PtrOf(f, "min_length"))
                  /\ MaxLengthHolds(data, PtrOf(f, "max_length"))
                  /\ WordCountHolds(data, PtrOf(f, "word_count"))
                  /\ CharacterHolds(data, StringOf(f, "contains_character"))

\* A record holding the capital of the required letter has matched a
\* translated filter set of two fields.
C8_Witness ==
    /\ NaturalMatched
    /\ tverd[1]
    /\ "contains_character" \in DOMAIN tfs[1].filters
    /\ "word_count" \in DOMAIN tfs[1].filters
    /\ ~Contains(tval[1], tfs[1].filters["contains_character"])

\* C9: a query matching "contain(s|ing) [the] (letter|character) X" has
\* required character X whatever else it contains, "first vowel" included;
\* and a query containing both "single word" and "two word" has word_count 1.
C9_LetterAndSingleWordWin ==
    (Translated /\ ~tfs[1].err) =>
        LET lq == ToLower(tin.query)
            mc == containsRegex(lq)
            f  == tfs[1].filters
        IN  /\ Len(mc) > 1 =>
                /\ "contains_character" \in DOMAIN f
                /\ f["contains_character"] = mc[2]
            /\ (Contains(lq, sSingleWord) /\ Contains(lq, sTwoWord)) =>
                /\ "word_count" \in DOMAIN f
                /\ f["word_count"] = 1

\* C10: every filter set that reaches a matching function, built from the
\* validated query parameters or by the translator, has non-negative
\* min_length, max_length and word_count wherever these are present.
C10_FilterValuesNonNegative ==
    /\ StructuredMatched =>
          /\ tfs[1].minLength # Nil => tfs[1].minLength[1] >= 0
          /\ tfs[1].maxLength # Nil => tfs[1].maxLength[1] >= 0
          /\ tfs[1].wordCount # Nil => tfs[1].wordCount[1] >= 0
    /\ NaturalMatched =>
          \A k \in {"min_length", "max_length", "word_count"} \cap DOMAIN tfs[1].filters :
              tfs[1].filters[k] >= 0

=============================================================================
